---------------------------- MODULE Spec2Model ----------------------------
(***************************************************************************)
(* A model of base-scalable-attribute.ts, which holds two independent      *)
(* programs:                                                               *)
(*   - BaseScalableAttribute, a construct that owns one ScalableTarget     *)
(*     and forwards three scaling operations to it (SpecFacade);           *)
(*   - the module scaffolder main(), which walks the CloudFormation        *)
(*     namespaces and generates a package directory for each namespace     *)
(*     that has none, then runs lerna twice on it (Spec).                  *)
(*                                                                         *)
(* Strings are sequences of pieces.  An interpolated value is kept         *)
(* character by character (each piece one character); a literal of the     *)
(* source that is never split or case-converted is kept as one piece.      *)
(***************************************************************************)
EXTENDS Integers, Sequences, FiniteSets, TLC

VARIABLES
  \* ---- BaseScalableAttribute ----
  fpc,          \* "new" before the constructor ran, "ready" after
  ctorProps,    \* the props handed to the BaseScalableAttribute constructor
  target,       \* this.target: index into heap, 0 while unassigned
  heap,         \* the ScalableTarget objects created so far
  callerLog,    \* what callers of the facade asked for and observed
  \* ---- scaffolder ----
  dirname,      \* __dirname of the script, a path
  cfnspec,      \* the namespaces of the CloudFormation specification ('../lib')
  pc,           \* position of main()
  version,      \* require('../package.json').version, Unread before line 123
  namespaces,   \* the value of cfnspec.namespaces(), Unread before line 126
  idx,          \* position of the for loop in namespaces
  step,         \* position inside one loop body (which write, which copy)
  locals,       \* the constants of the loop body (lines 127-150), once computed
  dirs,         \* file system: the directories that exist
  files,        \* file system: path -> contents of the files that exist
  running,      \* child processes spawned and not yet exited
  pending,      \* the error main() rejected with, NoError otherwise
  stderr,       \* what console.error printed
  exitStatus,   \* the status the process ended with, Alive before
  run,          \* number of the current run of the script
  log           \* history: the file-system writes and subprocess events of this run

fvars == <<fpc, ctorProps, target, heap, callerLog>>
svars == <<dirname, cfnspec, pc, version, namespaces, idx, step, locals, dirs, files,
           running, pending, stderr, exitStatus, run, log>>
vars == <<fvars, svars>>

----------------------------------------------------------------------------
(* Bounds of the model *)

\* capacities are drawn from 0..MaxCapacity
MaxCapacity == 2
\* number of forwarded calls made on one facade
MaxCalls == 2
\* length of the namespace list cfnspec.namespaces() returns
MaxNamespaces == 3
\* number of runs of the scaffolder over the same file system
MaxRuns == 2
\* a child process exits with a code in 0..MaxExitCode, or on a signal
MaxExitCode == 2

----------------------------------------------------------------------------
(* BaseScalableAttribute *)

Undefined == "undefined"
\* an optional number: left out, or supplied
NoNumber == [defined |-> FALSE]
Number(n) == [defined |-> TRUE, value |-> n]
OptionalNumbers == {NoNumber} \cup {Number(n) : n \in 0..MaxCapacity}

\* EnableScalingProps: minCapacity?: number, maxCapacity: number
EnableScalingProps ==
  [minCapacity : OptionalNumbers, maxCapacity : 0..MaxCapacity]

\* BaseScalableAttributeProps (one value of each of the four pass-through
\* attributes is enough: they are copied, never inspected)
BaseScalableAttributeProps ==
  [serviceNamespace : {"dynamodb"}, resourceId : {"table/t"},
   dimension : {"dynamodb:table:ReadCapacityUnits"}, role : {"role"},
   minCapacity : OptionalNumbers, maxCapacity : 0..MaxCapacity]

\* a faulty variant: the default applied with ||, which also replaces 0
MinCapacityOrDefault(props) ==
  IF ~props.minCapacity.defined \/ props.minCapacity.value = 0
  THEN 1 ELSE props.minCapacity.value

\* line 57: props.minCapacity !== undefined ? props.minCapacity : 1
MinCapacity(props) ==
  IF props.minCapacity.defined THEN props.minCapacity.value ELSE 1

\* lines 52-59: the props object handed to new ScalableTarget(this, 'Target', ..)
ScalableTargetProps(props) ==
  [serviceNamespace |-> props.serviceNamespace,
   scalableDimension |-> props.dimension,
   resourceId |-> props.resourceId,
   role |-> props.role,
   minCapacity |-> MinCapacity(props),
   maxCapacity |-> props.maxCapacity]

\* new ScalableTarget(scope, id, props): a fresh object on the heap
NewScalableTarget(id, props) == [id |-> id, props |-> props, calls |-> <<>>]

\* lines 49-60: the constructor
Construct ==
  /\ fpc = "new"
  /\ heap' = Append(heap, NewScalableTarget("Target", ScalableTargetProps(ctorProps)))
  /\ target' = Len(heap) + 1
  /\ fpc' = "ready"
  /\ UNCHANGED <<svars, ctorProps, callerLog>>

Ids == {"a", "b"}
PolicySpecs == {"p1", "p2"}
\* what a ScalableTarget operation does to its caller: return, or throw an error
Outcomes == {[kind |-> "return"], [kind |-> "throw", error |-> "E1"],
             [kind |-> "throw", error |-> "E2"]}

\* the owned ScalableTarget receives operation op(id, props) and ends with out
TargetReceives(op, id, props, out) ==
  heap' = [heap EXCEPT ![target].calls =
             Append(@, [op |-> op, id |-> id, props |-> props, out |-> out])]

\* the caller of the facade's method op(id, props) observes out
CallerObserves(op, id, props, out) ==
  callerLog' = Append(callerLog, [op |-> op, id |-> id, props |-> props, out |-> out])

\* a faulty variant: scaleOnMetric forwarded to the wrong target operation
ScaleOnMetricCrossed(id, props, out) ==
  /\ fpc = "ready" /\ Len(callerLog) < MaxCalls
  /\ TargetReceives("scaleToTrackMetric", id, props, out)
  /\ CallerObserves("scaleOnMetric", id, props, out)
  /\ UNCHANGED <<svars, fpc, ctorProps, target>>

\* lines 65-67
ScaleOnSchedule(id, props, out) ==
  /\ fpc = "ready" /\ Len(callerLog) < MaxCalls
  /\ TargetReceives("scaleOnSchedule", id, props, out)
  /\ CallerObserves("scaleOnSchedule", id, props, out)
  /\ UNCHANGED <<svars, fpc, ctorProps, target>>

\* lines 72-74
ScaleOnMetric(id, props, out) ==
  /\ fpc = "ready" /\ Len(callerLog) < MaxCalls
  /\ TargetReceives("scaleOnMetric", id, props, out)
  /\ CallerObserves("scaleOnMetric", id, props, out)
  /\ UNCHANGED <<svars, fpc, ctorProps, target>>

\* lines 79-81
ScaleToTrackMetric(id, props, out) ==
  /\ fpc = "ready" /\ Len(callerLog) < MaxCalls
  /\ TargetReceives("scaleToTrackMetric", id, props, out)
  /\ CallerObserves("scaleToTrackMetric", id, props, out)
  /\ UNCHANGED <<svars, fpc, ctorProps, target>>

FacadeInit ==
  /\ fpc = "new"
  /\ ctorProps \in BaseScalableAttributeProps
  /\ target = 0
  /\ heap = <<>>
  /\ callerLog = <<>>

FacadeNext ==
  \/ Construct
  \/ \E id \in Ids, props \in PolicySpecs, out \in Outcomes :
       ScaleOnSchedule(id, props, out)
  \/ \E id \in Ids, props \in PolicySpecs, out \in Outcomes :
       ScaleOnMetric(id, props, out)
  \/ \E id \in Ids, props \in PolicySpecs, out \in Outcomes :
       ScaleToTrackMetric(id, props, out)

----------------------------------------------------------------------------
(* Strings and paths used by the scaffolder *)

UpperToLower ==
  [c \in {"A","B","C","D","E","F","G","H","I","J","K","L","M",
          "N","O","P","Q","R","S","T","U","V","W","X","Y","Z"} |->
     CASE c = "A" -> "a" [] c = "B" -> "b" [] c = "C" -> "c" [] c = "D" -> "d"
       [] c = "E" -> "e" [] c = "F" -> "f" [] c = "G" -> "g" [] c = "H" -> "h"
       [] c = "I" -> "i" [] c = "J" -> "j" [] c = "K" -> "k" [] c = "L" -> "l"
       [] c = "M" -> "m" [] c = "N" -> "n" [] c = "O" -> "o" [] c = "P" -> "p"
       [] c = "Q" -> "q" [] c = "R" -> "r" [] c = "S" -> "s" [] c = "T" -> "t"
       [] c = "U" -> "u" [] c = "V" -> "v" [] c = "W" -> "w" [] c = "X" -> "x"
       [] c = "Y" -> "y" [] c = "Z" -> "z"]

\* String.prototype.toLocaleLowerCase (lines 129, 137, 147, 150)
ToLocaleLowerCase(s) ==
  [i \in 1..Len(s) |-> IF s[i] \in DOMAIN UpperToLower THEN UpperToLower[s[i]] ELSE s[i]]

\* the first position >= from where sep occurs in s, 0 when there is none
IndexOf(s, sep, from) ==
  LET hits == {i \in from..(Len(s) - Len(sep) + 1) : SubSeq(s, i, i + Len(sep) - 1) = sep}
  IN IF hits = {} THEN 0 ELSE CHOOSE i \in hits : \A j \in hits : i <= j

RECURSIVE Split(_, _)
\* String.prototype.split(sep) (line 127)
Split(s, sep) ==
  LET i == IndexOf(s, sep, 1)
  IN IF i = 0 THEN <<s>>
     ELSE <<SubSeq(s, 1, i - 1)>> \o Split(SubSeq(s, i + Len(sep), Len(s)), sep)

\* a path is the sequence of its segments
RECURSIVE Join(_, _)
\* path.join(p, ...segs): '..' climbs one directory (lines 118, 130, 153, 310, 312)
Join(p, segs) ==
  IF segs = <<>> THEN p
  ELSE IF Head(segs) = <<"..">> THEN Join(SubSeq(p, 1, Len(p) - 1), Tail(segs))
  ELSE Join(Append(p, Head(segs)), Tail(segs))

\* path.basename (line 119)
Basename(p) == p[Len(p)]
\* path.dirname (line 154)
Dirname(p) == SubSeq(p, 1, Len(p) - 1)
\* a directory and all the directories above it
Ancestors(p) == {SubSeq(p, 1, n) : n \in 1..Len(p)}

----------------------------------------------------------------------------
(* The environment of a scaffolder run *)

\* CloudFormation namespaces; the last one differs from the first in case only
NsAwsS3 == <<"A","W","S",":",":","S","3">>
NsAlexaAsk == <<"A","l","e","x","a",":",":","A","S","K">>
NsAwsEc2 == <<"A","W","S",":",":","E","C","2">>
NsAwsS3Folded == <<"a","w","s",":",":","s","3">>
\* the namespaces of the CloudFormation specification, in its order
AllNamespaces == <<NsAwsS3, NsAlexaAsk, NsAwsEc2, NsAwsS3Folded>>
NamespaceUniverse == {AllNamespaces[i] : i \in 1..Len(AllNamespaces)}

RECURSIVE SubSeqs(_)
\* the subsequences of s: some elements left out, the order kept
SubSeqs(s) ==
  IF s = <<>> THEN {<<>>}
  ELSE LET rest == SubSeqs(Tail(s))
       IN rest \cup {<<Head(s)>> \o t : t \in rest}

\* what cfnspec.namespaces() may return: at most MaxNamespaces of them; the
\* specification is a file of the repository, the same in every run
NamespaceLists == {l \in SubSeqs(AllNamespaces) : Len(l) \in 1..MaxNamespaces}

\* where the script may live: in packages/@aws-cdk/cfnspec/build-tools, or moved
HomeDirname == << <<"repo">>, <<"packages">>, <<"@aws-cdk">>, <<"cfnspec">>, <<"build-tools">> >>
MovedDirname == << <<"repo">>, <<"tools">>, <<"cfnspec">>, <<"build-tools">> >>

\* the version field of ../package.json
PackageVersion == <<"0.8.0">>
\* the files of the template directory, in readdir order
TemplateFiles == << <<"LICENSE">>, <<"NOTICE">> >>

NoError == [kind |-> "none"]
Alive == [exited |-> FALSE]
Exited(status) == [exited |-> TRUE, status |-> status]
NoLocals == [namespace |-> <<>>]
Unread == [read |-> FALSE]
Read(v) == [read |-> TRUE, value |-> v]

----------------------------------------------------------------------------
(* main(): the names derived from one namespace *)

\* line 118
Root == Join(dirname, << <<"..">>, <<"..">> >>)
\* line 310
TemplateDir == Join(dirname, << <<"template">> >>)

\* line 127: const [ moduleFamily, moduleBaseName ] = namespace.split('::')
ModuleFamily(namespace) == Split(namespace, <<":", ":">>)[1]
ModuleBaseName(namespace) == Split(namespace, <<":", ":">>)[2]

\* a faulty variant: only the base name is lower-cased
ModuleNameFamilyAsIs(namespace) ==
  ModuleFamily(namespace) \o <<"-">> \o ToLocaleLowerCase(ModuleBaseName(namespace))

\* line 129
ModuleName(namespace) ==
  ToLocaleLowerCase(ModuleFamily(namespace) \o <<"-">> \o ModuleBaseName(namespace))

\* line 130
PacakgePath(namespace) == Join(Root, <<ModuleName(namespace)>>)

\* line 137
LowcaseModuleName(namespace) == ToLocaleLowerCase(ModuleBaseName(namespace))
\* line 138
PackageName(namespace) == <<"@aws-cdk/">> \o ModuleName(namespace)
\* line 141
DotnetPackage(namespace) ==
  <<"Amazon.CDK.">> \o ModuleFamily(namespace) \o <<".">> \o ModuleBaseName(namespace)
\* line 144
JavaGroupId == <<"software.amazon.awscdk">>

\* a faulty variant: the family prefix is kept for every family
JavaPackageAlwaysFamily(namespace) ==
  ToLocaleLowerCase(ModuleFamily(namespace)) \o <<".">> \o LowcaseModuleName(namespace)

\* lines 145-147
JavaPackage(namespace) ==
  IF ModuleFamily(namespace) = <<"A", "W", "S">>
  THEN <<"services.">> \o LowcaseModuleName(namespace)
  ELSE ToLocaleLowerCase(ModuleFamily(namespace)) \o <<".">> \o LowcaseModuleName(namespace)

\* lines 148-150
JavaArtifactId(namespace) ==
  IF ModuleFamily(namespace) = <<"A", "W", "S">>
  THEN LowcaseModuleName(namespace)
  ELSE ToLocaleLowerCase(ModuleFamily(namespace)) \o <<"-">> \o LowcaseModuleName(namespace)

\* lines 127-150: the constants of one loop iteration
Locals(namespace) ==
  [namespace |-> namespace,
   moduleFamily |-> ModuleFamily(namespace),
   moduleBaseName |-> ModuleBaseName(namespace),
   moduleName |-> ModuleName(namespace),
   pacakgePath |-> PacakgePath(namespace),
   lowcaseModuleName |-> LowcaseModuleName(namespace),
   packageName |-> PackageName(namespace),
   dotnetPackage |-> DotnetPackage(namespace),
   javaPackage |-> JavaPackage(namespace),
   javaArtifactId |-> JavaArtifactId(namespace)]

\* lines 173-244: the object written to package.json (the fixed fields are left
\* out: repository, homepage, scripts, author, license, engines)
PackageJson(l, ver) ==
  [name |-> l.packageName,
   version |-> ver,
   description |-> <<"The CDK Construct Library for ">> \o l.namespace,
   jsii |-> [dotnet |-> [namespace |-> l.dotnetPackage, packageId |-> l.dotnetPackage],
             java |-> [package |-> JavaGroupId \o <<".">> \o l.javaPackage,
                       maven |-> [groupId |-> JavaGroupId,
                                  artifactId |-> l.javaArtifactId]]],
   cdkBuild |-> [cloudformation |-> l.namespace],
   keywords |-> <<l.namespace, l.moduleName>>,
   devDependencies |-> <<"^">> \o ver,
   dependencies |-> <<"^">> \o ver,
   peerDependencies |-> <<"^">> \o ver]

Object(v) == [type |-> "object", value |-> v]
Array(v) == [type |-> "array", value |-> v]

\* lines 173-308: the relative paths of the six calls of write(), in order
WritePaths(l) ==
  << << <<"package.json">> >>,
     << <<".gitignore">> >>,
     << <<".npmignore">> >>,
     << <<"lib">>, <<"index.ts">> >>,
     << <<"test">>, <<"test.">> \o l.lowcaseModuleName \o <<".ts">> >>,
     << <<"README.md">> >> >>

\* lines 173-308: the contents of the k-th call of write()
WriteContents(l, ver, k) ==
  CASE k = 1 -> Object(PackageJson(l, ver))
    [] k = 2 -> Array(<< <<"*.d.ts">>, <<"*.generated.ts">>, <<"*.js">>, <<"...">> >>)
    [] k = 3 -> Array(<< <<"# The basics">>, <<"*.ts">>, <<"!*.d.ts">>, <<"...">> >>)
    [] k = 4 -> Array(<< <<"// ">> \o l.namespace \o <<" CloudFormation Resources:">>,
                         <<"export * from './">> \o l.lowcaseModuleName \o <<".generated';">> >>)
    [] k = 5 -> Array(<< <<"import { Test, testCase } from 'nodeunit';">>, <<"...">> >>)
    [] OTHER -> Array(<< <<"## ">> \o l.namespace \o <<" Construct Library">>,
                         <<"import ">> \o l.lowcaseModuleName \o <<" = require('">>
                            \o l.packageName \o <<"');">> >>)

\* lines 157-168: the data write() hands to fs.writeFile
Data(contents) ==
  IF contents.type = "array"
  THEN [text |-> "lines", value |-> contents.value, newline |-> TRUE]
  ELSE [text |-> "json", value |-> contents.value, newline |-> TRUE]

\* lines 317-318: the two commands handed to exec()
Commands(l) ==
  << [lerna |-> "bootstrap", scope |-> l.packageName],
     [lerna |-> "run build", scope |-> l.packageName] >>

----------------------------------------------------------------------------
(* main(): the file system, the child processes and the loop *)

\* the namespace the for loop is at
Namespace == namespaces.value[idx]

\* history: one event of the current loop iteration
Event(kind, what) == [idx |-> idx, kind |-> kind, what |-> what]

\* a faulty variant: the guard looks for a file, not for a directory
PathExistsAsFile(p) == p \in DOMAIN files

\* a faulty variant: the guard never finds the directory
PathExistsNever(p) == FALSE

\* fs.pathExists (line 133)
PathExists(p) == p \in dirs \/ p \in DOMAIN files

\* the throw of an error out of main(): the promise main() returned rejects
Throw(e) ==
  /\ pending' = e
  /\ pc' = "rejected"

\* a faulty variant: the root check is skipped
RootIsExpectedUnchecked == TRUE

\* line 119: path.basename(root) !== '@aws-cdk'
RootIsExpected == Basename(Root) = <<"@aws-cdk">>

\* lines 118-121: the script is not where it expects to be
StartMoved ==
  /\ pc = "start"
  /\ ~RootIsExpected
  /\ Throw([kind |-> "Error", message |-> <<"Something went wrong. We expected ">>, root |-> Root])
  /\ UNCHANGED <<fvars, locals, dirname, cfnspec, version, namespaces, idx, step, dirs, files, running,
                 stderr, exitStatus, run, log>>

\* lines 118-126: the root is right; the version and the namespaces are read
\* (no await before the first fs.pathExists)
Start ==
  /\ pc = "start"
  /\ RootIsExpected
  /\ version' = Read(PackageVersion)
  /\ namespaces' = Read(cfnspec)
  /\ idx' = 1
  /\ pc' = "loop"
  /\ UNCHANGED <<fvars, locals, dirname, cfnspec, step, dirs, files, running, pending, stderr, exitStatus, run, log>>

\* line 126: the list is exhausted, main() resolves and node exits with 0
Finish ==
  /\ pc = "loop"
  /\ idx > Len(namespaces.value)
  /\ pc' = "exited"
  /\ exitStatus' = Exited(0)
  /\ UNCHANGED <<fvars, locals, dirname, cfnspec, version, namespaces, idx, step, dirs, files, running,
                 pending, stderr, run, log>>

\* lines 133-135: we already have a module for this namespace, move on
Skip ==
  /\ pc = "loop"
  /\ idx <= Len(namespaces.value)
  /\ PathExists(PacakgePath(Namespace))
  /\ idx' = idx + 1
  /\ UNCHANGED <<fvars, locals, dirname, cfnspec, pc, version, namespaces, step, dirs, files, running,
                 pending, stderr, exitStatus, run, log>>

\* lines 133-171: no module yet; the names are derived and generation begins
Generate ==
  /\ pc = "loop"
  /\ idx <= Len(namespaces.value)
  /\ ~PathExists(PacakgePath(Namespace))
  /\ locals' = Locals(Namespace)
  /\ pc' = "write"
  /\ step' = 1
  /\ UNCHANGED <<fvars, dirname, cfnspec, version, namespaces, idx, dirs, files, running,
                 pending, stderr, exitStatus, run, log>>

\* after the last write: on to the template directory
AfterWrite ==
  IF step < Len(WritePaths(locals))
  THEN pc' = "write" /\ step' = step + 1
  ELSE pc' = "readdir" /\ step' = 1

\* lines 152-169: write(relativePath, contents) runs to its end
WriteOk ==
  /\ pc = "write"
  /\ LET fullPath == Join(locals.pacakgePath, WritePaths(locals)[step])
         dir == Dirname(fullPath)
     IN /\ dirs' = dirs \cup Ancestors(dir)
        /\ files' = (fullPath :> Data(WriteContents(locals, version.value, step))) @@ files
        /\ log' = log \o <<Event("mkdirp", dir), Event("writeFile", fullPath)>>
  /\ AfterWrite
  /\ pending' = pending
  /\ UNCHANGED <<fvars, locals, dirname, cfnspec, version, namespaces, idx, running, stderr, exitStatus, run>>

\* line 155: fs.mkdirp rejects, nothing is created
WriteMkdirpFails ==
  /\ pc = "write"
  /\ Throw([kind |-> "Error", message |-> <<"EACCES: mkdir">>])
  /\ UNCHANGED <<fvars, locals, dirname, cfnspec, version, namespaces, idx, step, dirs, files, running,
                 stderr, exitStatus, run, log>>

\* line 168: fs.writeFile rejects after fs.mkdirp made the directory
WriteFileFails ==
  /\ pc = "write"
  /\ LET dir == Dirname(Join(locals.pacakgePath, WritePaths(locals)[step]))
     IN /\ dirs' = dirs \cup Ancestors(dir)
        /\ log' = Append(log, Event("mkdirp", dir))
  /\ Throw([kind |-> "Error", message |-> <<"ENOSPC: write">>])
  /\ UNCHANGED <<fvars, locals, dirname, cfnspec, version, namespaces, idx, step, files, running,
                 stderr, exitStatus, run>>

\* line 311: fs.readdir(templateDir)
ReadTemplateDir ==
  /\ pc = "readdir"
  /\ pc' = "copy"
  /\ step' = 1
  /\ UNCHANGED <<fvars, locals, dirname, cfnspec, version, namespaces, idx, dirs, files, running,
                 pending, stderr, exitStatus, run, log>>

\* line 311: fs.readdir rejects
ReadTemplateDirFails ==
  /\ pc = "readdir"
  /\ Throw([kind |-> "Error", message |-> <<"ENOENT: scandir">>])
  /\ UNCHANGED <<fvars, locals, dirname, cfnspec, version, namespaces, idx, step, dirs, files, running,
                 stderr, exitStatus, run, log>>

\* lines 311-313: one template file is copied into the package directory
CopyOk ==
  /\ pc = "copy"
  /\ step <= Len(TemplateFiles)
  /\ LET src == Join(TemplateDir, <<TemplateFiles[step]>>)
         dest == Join(locals.pacakgePath, <<TemplateFiles[step]>>)
     IN /\ files' = (dest :> files[src]) @@ files
        /\ dirs' = dirs \cup Ancestors(Dirname(dest))
        /\ log' = Append(log, Event("copy", dest))
  /\ step' = step + 1
  /\ UNCHANGED <<fvars, locals, dirname, cfnspec, pc, version, namespaces, idx, running, pending, stderr,
                 exitStatus, run>>

\* line 312: fs.copy rejects
CopyFails ==
  /\ pc = "copy"
  /\ step <= Len(TemplateFiles)
  /\ Throw([kind |-> "Error", message |-> <<"EIO: copyfile">>])
  /\ UNCHANGED <<fvars, locals, dirname, cfnspec, version, namespaces, idx, step, dirs, files, running,
                 stderr, exitStatus, run, log>>

\* line 316: every template file is copied and lerna's cli.js is resolved
ResolveLerna ==
  /\ pc = "copy"
  /\ step > Len(TemplateFiles)
  /\ pc' = "exec"
  /\ step' = 1
  /\ UNCHANGED <<fvars, locals, dirname, cfnspec, version, namespaces, idx, dirs, files, running,
                 pending, stderr, exitStatus, run, log>>

\* line 316: require.resolve('lerna/package.json') throws
ResolveLernaFails ==
  /\ pc = "copy"
  /\ step > Len(TemplateFiles)
  /\ Throw([kind |-> "Error", message |-> <<"Cannot find module 'lerna/package.json'">>])
  /\ UNCHANGED <<fvars, locals, dirname, cfnspec, version, namespaces, idx, step, dirs, files, running,
                 stderr, exitStatus, run, log>>

\* a child process: which command, of which loop iteration of which run
Child == [cmd |-> Commands(locals)[step], run |-> run, idx |-> idx]

\* the argument of the child's 'exit' event: its exit code, null on a signal
ExitCodes == {[type |-> "number", value |-> n] : n \in 0..MaxExitCode} \cup {[type |-> "null"]}

\* a faulty variant: exec() returns without waiting for the child
NoAwaitAfterSpawn ==
  IF step < Len(Commands(locals))
  THEN pc' = "exec" /\ step' = step + 1
  ELSE pc' = "await" /\ step' = step

\* line 332: exec() returns a promise that main() awaits
AwaitAfterSpawn == pc' = "await" /\ step' = step

\* lines 327-331: exec() spawns the command in a shell
Spawn ==
  /\ pc = "exec"
  /\ running' = running \cup {Child}
  /\ log' = Append(log, Event("spawn", Child.cmd))
  /\ AwaitAfterSpawn
  /\ UNCHANGED <<fvars, locals, dirname, cfnspec, version, namespaces, idx, dirs, files, pending, stderr,
                 exitStatus, run>>

\* a faulty variant: every exit code counts as success
ExitedCleanlyAlways(code) == TRUE

\* line 335: code === 0
ExitedCleanly(code) == code.type = "number" /\ code.value = 0

\* lines 334-337 and 317-319: the child exits with 0; exec() resolves and main()
\* goes on to the next command, or to the next namespace
ChildExitsOk(child, code) ==
  /\ pc = "await"
  /\ child \in running
  /\ ExitedCleanly(code)
  /\ running' = running \ {child}
  /\ log' = Append(log, Event("exit", [cmd |-> child.cmd, code |-> code]))
  /\ IF step < Len(Commands(locals))
     THEN pc' = "exec" /\ step' = step + 1 /\ idx' = idx /\ locals' = locals
     ELSE pc' = "loop" /\ step' = 1 /\ idx' = idx + 1 /\ locals' = NoLocals
  /\ UNCHANGED <<fvars, dirname, cfnspec, version, namespaces, dirs, files, pending, stderr,
                 exitStatus, run>>

\* lines 334-339: the child exits otherwise; exec() rejects with the code
ChildExitsFailing(child, code) ==
  /\ pc = "await"
  /\ child \in running
  /\ ~ExitedCleanly(code)
  /\ running' = running \ {child}
  /\ log' = Append(log, Event("exit", [cmd |-> child.cmd, code |-> code]))
  /\ Throw([kind |-> "Error", message |-> <<"non-zero exit code: ">>, code |-> code])
  /\ UNCHANGED <<fvars, locals, dirname, cfnspec, version, namespaces, idx, step, dirs, files, stderr,
                 exitStatus, run>>

\* line 333: the child's 'error' event (the shell could not be spawned)
ChildError(child) ==
  /\ pc = "await"
  /\ child \in running
  /\ running' = running \ {child}
  /\ log' = Append(log, Event("error", [cmd |-> child.cmd]))
  /\ Throw([kind |-> "Error", message |-> <<"spawn ENOENT">>])
  /\ UNCHANGED <<fvars, locals, dirname, cfnspec, version, namespaces, idx, step, dirs, files, stderr,
                 exitStatus, run>>

\* a faulty variant: the handler removes the package directory it was working on
CatchCleaningUp ==
  /\ pc = "rejected"
  /\ stderr' = Append(stderr, pending)
  /\ exitStatus' = Exited(1)
  /\ pc' = "exited"
  /\ IF namespaces.read /\ idx <= Len(namespaces.value)
     THEN LET gone(p) == Len(p) >= Len(PacakgePath(Namespace))
                         /\ SubSeq(p, 1, Len(PacakgePath(Namespace))) = PacakgePath(Namespace)
          IN /\ dirs' = {d \in dirs : ~gone(d)}
             /\ files' = [f \in {g \in DOMAIN files : ~gone(g)} |-> files[f]]
     ELSE UNCHANGED <<dirs, files>>
  /\ UNCHANGED <<fvars, locals, dirname, cfnspec, version, namespaces, idx, step, running, pending, run, log>>

\* lines 322-325: main().catch(e => { console.error(e); process.exit(1); })
Catch ==
  /\ pc = "rejected"
  /\ stderr' = Append(stderr, pending)
  /\ exitStatus' = Exited(1)
  /\ pc' = "exited"
  /\ UNCHANGED <<fvars, locals, dirname, cfnspec, version, namespaces, idx, step, dirs, files, running,
                 pending, run, log>>

\* the script is started again, on the file system the last run left
Rerun ==
  /\ pc = "exited"
  /\ run < MaxRuns
  /\ run' = run + 1
  /\ pc' = "start"
  /\ version' = Unread
  /\ namespaces' = Unread
  /\ idx' = 0
  /\ step' = 1
  /\ pending' = NoError
  /\ stderr' = <<>>
  /\ exitStatus' = Alive
  /\ log' = <<>>
  /\ locals' = NoLocals
  /\ UNCHANGED <<fvars, dirname, cfnspec, dirs, files, running>>

\* a package directory somebody made before the first run
HandWritten == [text |-> "lines", value |-> <<"hand-written">>, newline |-> TRUE]
TemplateText(name) == [text |-> "lines", value |-> name, newline |-> TRUE]

ScaffoldInit ==
  /\ dirname \in {HomeDirname, MovedDirname}
  /\ cfnspec \in NamespaceLists
  /\ pc = "start"
  /\ version = Unread
  /\ namespaces = Unread
  /\ idx = 0
  /\ step = 1
  /\ locals = NoLocals
  /\ \E present \in SUBSET {Join(Root, <<ModuleName(ns)>>) : ns \in NamespaceUniverse} :
       /\ dirs = Ancestors(dirname) \cup {TemplateDir} \cup present
       /\ files = [f \in {Join(TemplateDir, <<TemplateFiles[i]>>) : i \in 1..Len(TemplateFiles)}
                         \cup {Join(d, << <<"package.json">> >>) : d \in present} |->
                     IF Dirname(f) = TemplateDir THEN TemplateText(Basename(f)) ELSE HandWritten]
  /\ running = {}
  /\ pending = NoError
  /\ stderr = <<>>
  /\ exitStatus = Alive
  /\ run = 1
  /\ log = <<>>

Next ==
  \/ StartMoved
  \/ Start
  \/ Finish
  \/ Skip
  \/ Generate
  \/ WriteOk
  \/ WriteMkdirpFails
  \/ WriteFileFails
  \/ ReadTemplateDir
  \/ ReadTemplateDirFails
  \/ CopyOk
  \/ CopyFails
  \/ ResolveLerna
  \/ ResolveLernaFails
  \/ Spawn
  \/ \E child \in running, code \in ExitCodes : ChildExitsOk(child, code)
  \/ \E child \in running, code \in ExitCodes : ChildExitsFailing(child, code)
  \/ \E child \in running : ChildError(child)
  \/ Catch
  \/ Rerun

\* the facade is not part of a scaffolder run
FacadeIdle == fpc = "idle" /\ ctorProps = Undefined /\ target = 0 /\ heap = <<>> /\ callerLog = <<>>
\* no scaffolder runs while the facade is exercised
ScaffoldIdle ==
  /\ dirname = <<>> /\ cfnspec = <<>> /\ pc = "idle" /\ version = Unread /\ namespaces = Unread
  /\ idx = 0 /\ step = 1 /\ locals = NoLocals /\ dirs = {} /\ files = <<>> /\ running = {}
  /\ pending = NoError /\ stderr = <<>> /\ exitStatus = Alive /\ run = 0 /\ log = <<>>

Init == FacadeIdle /\ ScaffoldInit
Spec == Init /\ [][Next]_vars

InitFacade == FacadeInit /\ ScaffoldIdle
SpecFacade == InitFacade /\ [][FacadeNext]_vars

----------------------------------------------------------------------------
(* Properties of BaseScalableAttribute, checked under SpecFacade *)

\* C7: the three operations are pure forwarding.  What the owned target received
\* is, call by call, what the callers of the facade asked for, with the same
\* operation, id and props, and what each caller observed (a return, or the
\* error thrown) is what the target did; the facade owns the one target made
\* by its constructor throughout.
C7_PureForwarding ==
  /\ fpc = "new" => target = 0 /\ heap = <<>> /\ callerLog = <<>>
  /\ fpc = "ready" => /\ target = 1
                      /\ Len(heap) = 1
                      /\ heap[target].calls = callerLog

C7_Witness ==
  /\ fpc = "ready"
  /\ Len(callerLog) = 2
  /\ callerLog[1].op = "scaleOnMetric" /\ callerLog[1].out.kind = "throw"
  /\ callerLog[2].op = "scaleOnSchedule" /\ callerLog[2].out.kind = "return"
  /\ heap[target].calls = callerLog

\* C8: the owned target is constructed with minCapacity 1 when the caller
\* supplied none, and with the supplied value otherwise (0 and values above
\* maxCapacity included); maxCapacity is always the supplied one.
C8_MinCapacityDefault ==
  fpc = "ready" =>
    /\ ~ctorProps.minCapacity.defined => heap[target].props.minCapacity = 1
    /\ ctorProps.minCapacity.defined =>
         heap[target].props.minCapacity = ctorProps.minCapacity.value
    /\ heap[target].props.maxCapacity = ctorProps.maxCapacity

C8_Witness ==
  /\ fpc = "ready"
  /\ ctorProps.minCapacity = Number(0)
  /\ heap[target].props.minCapacity = 0
  /\ heap[target].props.maxCapacity = ctorProps.maxCapacity

----------------------------------------------------------------------------
(* Properties of the scaffolder, checked under Spec *)

\* the loop stands at a namespace, before fs.pathExists
AtNamespace == pc = "loop" /\ namespaces.read /\ idx <= Len(namespaces.value)

\* nothing is written and no child process is spawned or reaped in this step
NoEffect == dirs' = dirs /\ files' = files /\ running' = running /\ log' = log

\* C1: when the loop reaches a namespace whose directory <root>/<moduleName>
\* exists, that namespace is passed over: no mkdir, no file write, no template
\* copy and no subprocess, and the loop stands at the next namespace.
C1_SkipExisting ==
  [][(AtNamespace /\ PacakgePath(Namespace) \in dirs)
       => (NoEffect /\ pc' = "loop" /\ idx' = idx + 1)]_vars

C1_Witness ==
  /\ run = 1 /\ pc = "loop" /\ idx = 2
  /\ log = <<>>
  /\ PacakgePath(namespaces.value[1]) \in dirs
  /\ Join(PacakgePath(namespaces.value[1]), << <<"package.json">> >>) \in DOMAIN files
  /\ files[Join(PacakgePath(namespaces.value[1]), << <<"package.json">> >>)] = HandWritten

\* the step in which a child process exits with the given code
ExitStep(code) ==
  /\ pc = "await"
  /\ Len(log') = Len(log) + 1
  /\ log'[Len(log')].kind = "exit"
  /\ log'[Len(log')].what.code = code

\* C2: a child that exits with 0 lets main() continue with the next command or
\* the next namespace; a child that exits with another code makes main() fail
\* with an error that carries the code, and from then on the run writes
\* nothing, spawns nothing and does not advance in the namespace list.
C2_ExitCode ==
  /\ [][\A code \in ExitCodes :
          ExitStep(code) =>
            IF code = [type |-> "number", value |-> 0]
            THEN /\ pending' = NoError
                 /\ \/ pc' = "exec" /\ idx' = idx /\ step' = step + 1
                    \/ pc' = "loop" /\ idx' = idx + 1
            ELSE /\ pc' = "rejected"
                 /\ pending' = [kind |-> "Error", message |-> <<"non-zero exit code: ">>,
                                code |-> code]]_vars
  /\ [][(pending # NoError /\ run' = run) => (NoEffect /\ idx' = idx)]_vars

C2_Witness ==
  /\ pc = "exited"
  /\ exitStatus = Exited(1)
  /\ pending = [kind |-> "Error", message |-> <<"non-zero exit code: ">>,
                code |-> [type |-> "number", value |-> 2]]
  /\ stderr = <<pending>>
  /\ idx = 1 /\ Len(namespaces.value) = 3
  /\ Len(log) > 0 /\ log[Len(log)].kind = "exit"

\* C5: when the directory two levels above the script is not named '@aws-cdk',
\* the version and the namespaces are never read, nothing is written, nothing
\* is spawned, and the run can only fail and end with a non-zero status.
C5_WrongRoot ==
  [][Basename(Join(dirname, << <<"..">>, <<"..">> >>)) # <<"@aws-cdk">> =>
       /\ version = Unread /\ namespaces = Unread /\ log = <<>> /\ running = {}
       /\ version' = Unread /\ namespaces' = Unread /\ NoEffect
       /\ (pc = "start" => pc' = "rejected" /\ pending'.kind = "Error")
       /\ (pc = "rejected" => pc' = "exited" /\ exitStatus' = Exited(1))
       /\ (pc = "exited" => exitStatus = Exited(1))]_vars

C5_Witness ==
  /\ dirname = MovedDirname
  /\ pc = "exited"
  /\ exitStatus = Exited(1)
  /\ version = Unread /\ namespaces = Unread /\ log = <<>>
  /\ Len(stderr) = 1 /\ stderr[1].root = << <<"repo">>, <<"tools">> >>

\* the names derived from each namespace that do not depend on the root
NamesOf ==
  [ns \in NamespaceUniverse |->
     [packageName |-> PackageName(ns), moduleName |-> ModuleName(ns),
      lowcaseModuleName |-> LowcaseModuleName(ns)]]
\* the names, and the package directory, of the n-th namespace of the list
NamesAt(n) == NamesOf[namespaces.value[n]]
PathAt(n) == Join(Root, <<NamesAt(n).moduleName>>)

\* the positions in the log of the events of one kind of the n-th namespace
EventsOf(n, kinds) == {i \in DOMAIN log : log[i].idx = n /\ log[i].kind \in kinds}

\* the log entry at i records that the command cmd of namespace n exited with 0
IsCleanExit(i, n, cmd) ==
  /\ log[i].kind = "exit"
  /\ log[i].idx = n
  /\ log[i].what = [cmd |-> cmd, code |-> [type |-> "number", value |-> 0]]

\* C3: lerna is run twice for every namespace that was generated, bootstrap
\* then build, one after the other: build is spawned only once bootstrap has
\* exited with 0, bootstrap only once the six files and the template copies
\* of the namespace are written, the events of the namespaces follow the list
\* and the first event of a later namespace comes right after the build of
\* the earlier one has exited with 0, and at most one child process runs at any
\* time.  (A namespace whose bootstrap fails has seen one
\* invocation: build never starts.)
C3_Sequential ==
  /\ Cardinality(running) <= 1
  /\ \A i \in DOMAIN log :
       /\ i > 1 => log[i - 1].idx <= log[i].idx
       /\ (i > 1 /\ log[i - 1].idx < log[i].idx) =>
            IsCleanExit(i - 1, log[i - 1].idx, Commands(NamesAt(log[i - 1].idx))[2])
       /\ (log[i].kind = "spawn" /\ log[i].what.lerna = "bootstrap") =>
            LET n == log[i].idx
            IN /\ log[i].what = Commands(NamesAt(n))[1]
               /\ {log[j].what : j \in EventsOf(n, {"writeFile"}) \cap 1..(i - 1)}
                    = {Join(PathAt(n), WritePaths(NamesAt(n))[k]) :
                         k \in 1..Len(WritePaths(NamesAt(n)))}
               /\ {log[j].what : j \in EventsOf(n, {"copy"}) \cap 1..(i - 1)}
                    = {Join(PathAt(n), <<TemplateFiles[k]>>) :
                         k \in 1..Len(TemplateFiles)}
               /\ EventsOf(n, {"mkdirp", "writeFile", "copy"}) \cap i..Len(log) = {}
       /\ (log[i].kind = "spawn" /\ log[i].what.lerna # "bootstrap") =>
            LET n == log[i].idx
            IN /\ log[i].what = Commands(NamesAt(n))[2]
               /\ i > 2
               /\ IsCleanExit(i - 1, n, Commands(NamesAt(n))[1])
               /\ log[i - 2].kind = "spawn" /\ log[i - 2].idx = n
               /\ log[i - 2].what = Commands(NamesAt(n))[1]
       /\ log[i].kind = "spawn" =>
            IF i = Len(log)
            THEN running = {[cmd |-> log[i].what, run |-> run, idx |-> log[i].idx]}
            ELSE /\ log[i + 1].kind \in {"exit", "error"}
                 /\ log[i + 1].idx = log[i].idx
                 /\ log[i + 1].what.cmd = log[i].what
  /\ \A n \in 1..(IF namespaces.read THEN Len(namespaces.value) ELSE 0) :
       /\ Cardinality(EventsOf(n, {"spawn"})) <= 2
       /\ (n < idx /\ EventsOf(n, {"mkdirp", "writeFile", "copy", "spawn"}) # {}) =>
            /\ Cardinality(EventsOf(n, {"spawn"})) = 2
            /\ Cardinality(EventsOf(n, {"exit"})) = 2
            /\ \A i \in EventsOf(n, {"exit"}) : IsCleanExit(i, n, log[i].what.cmd)

C3_Witness ==
  /\ pc = "loop" /\ idx = 3 /\ running = {}
  /\ Cardinality(EventsOf(1, {"spawn"})) = 2
  /\ Cardinality(EventsOf(2, {"spawn"})) = 2
  /\ log[Len(log)].kind = "exit" /\ log[Len(log)].what.cmd.lerna = "run build"

\* p is the directory m or lies below it
Under(m, p) == Len(p) >= Len(m) /\ SubSeq(p, 1, Len(m)) = m

\* the files at and below the directory m, with their contents
FilesUnder(m, fs) == [f \in {g \in DOMAIN fs : Under(m, g)} |-> fs[f]]

\* C4: a run is not transactional.  Nothing that is on disk is ever removed or
\* changed, so what earlier namespaces generated stays; when main() fails at
\* namespace k the handler only prints the error and exits with status 1: the
\* files already written for k stay, and the namespaces after k are not
\* processed.
C4_NotTransactional ==
  [][/\ dirs \subseteq dirs'
     /\ \A f \in DOMAIN files : f \in DOMAIN files' /\ files'[f] = files[f]
     /\ pc = "rejected" =>
          /\ dirs' = dirs /\ files' = files /\ log' = log /\ running' = running
          /\ idx' = idx
          /\ stderr' = <<pending>>
          /\ exitStatus' = Exited(1)
          /\ pc' = "exited"
     /\ (pending # NoError /\ run' = run) => (NoEffect /\ idx' = idx)]_vars

C4_Witness ==
  /\ pc = "exited" /\ exitStatus = Exited(1) /\ stderr = <<pending>>
  /\ namespaces.read
  /\ Len(namespaces.value) = 3 /\ idx = 2
  /\ EventsOf(1, {"exit"}) # {}
  /\ Join(PathAt(1), << <<"README.md">> >>) \in DOMAIN files
  /\ Join(PathAt(2), << <<"package.json">> >>) \in DOMAIN files
  /\ Join(PathAt(2), << <<"README.md">> >>) \notin DOMAIN files
  /\ PathAt(3) \notin dirs

\* main() is between the first write and the last exec of the module at m
Generating(m) ==
  pc \in {"write", "readdir", "copy", "exec", "await"} /\ locals.pacakgePath = m

\* C6: a module is generated at most once.  The generation of a module begins
\* only when its directory does not exist, the directory is never removed, and
\* once it exists nothing but the pass that created it writes a file or a
\* directory in it or spawns lerna for it: not the rest of that run, not a later
\* run, not a second namespace with the same module name.
C6_GeneratedOnce ==
  [][/\ (pc = "loop" /\ pc' = "write") => ~(PathAt(idx) \in dirs \/ PathAt(idx) \in DOMAIN files)
     /\ \A ns \in NamespaceUniverse :
          LET m == Join(Root, <<NamesOf[ns].moduleName>>)
          IN (m \in dirs /\ ~Generating(m)) =>
               /\ m \in dirs'
               /\ {d \in dirs' : Under(m, d)} = {d \in dirs : Under(m, d)}
               /\ FilesUnder(m, files') = FilesUnder(m, files)
               /\ \A c \in running' \ running : c.cmd.scope # NamesOf[ns].packageName]_vars

C6_Witness ==
  /\ run = 2 /\ pc = "exited" /\ exitStatus = Exited(0) /\ log = <<>>
  /\ namespaces.value = <<NsAwsS3, NsAwsS3Folded>>
  /\ Join(PathAt(1), << <<"package.json">> >>) \in DOMAIN files
  /\ files[Join(PathAt(1), << <<"package.json">> >>)].text = "json"
  /\ Join(PathAt(1), << <<"README.md">> >>) \notin DOMAIN files

\* the two parts of each namespace, and their lower-case forms
PartsOf ==
  [ns \in NamespaceUniverse |->
     LET parts == Split(ns, <<":", ":">>)
     IN [count |-> Len(parts), family |-> parts[1], base |-> parts[2],
         lowFamily |-> ToLocaleLowerCase(parts[1]),
         lowBase |-> ToLocaleLowerCase(parts[2])]]

\* lowercase(family) + "-" + lowercase(baseName)
HyphenName(ns) == PartsOf[ns].lowFamily \o <<"-">> \o PartsOf[ns].lowBase

\* C9: the module name of a namespace is lowercase(family) + "-" +
\* lowercase(baseName), family and baseName being the two parts around '::';
\* the directory that is checked, and every directory and file that is written
\* for the namespace, is <root>/<moduleName> or lies in it.
C9_ModuleName ==
  /\ locals # NoLocals =>
       /\ PartsOf[locals.namespace].count = 2
       /\ locals.moduleName = HyphenName(locals.namespace)
       /\ locals.pacakgePath = Append(Root, HyphenName(locals.namespace))
  /\ (pc = "write" /\ step = 1) => Append(Root, HyphenName(Namespace)) \notin dirs
  /\ namespaces.read =>
       \A n \in 1..Len(namespaces.value) :
         n < idx => Append(Root, HyphenName(namespaces.value[n])) \in dirs
  /\ \A i \in DOMAIN log :
       log[i].kind \in {"mkdirp", "writeFile", "copy"} =>
         Under(Append(Root, HyphenName(namespaces.value[log[i].idx])), log[i].what)

C9_Witness ==
  /\ Len(log) > 1
  /\ log[2].kind = "writeFile"
  /\ log[2].what = << <<"repo">>, <<"packages">>, <<"@aws-cdk">>,
                      <<"a", "l", "e", "x", "a", "-", "a", "s", "k">>, <<"package.json">> >>
  /\ namespaces.value[log[2].idx] = NsAlexaAsk

\* the manifests the scaffolder wrote
Manifests == {files[f].value : f \in {g \in DOMAIN files : files[g].text = "json"}}

\* C10 as stated: for the family 'AWS' the Java artifact id and package leave
\* the family out; for another family both hold the lower-case family joined
\* to the base name with a hyphen.
C10_HyphenJoinedBoth ==
  \A m \in Manifests :
    LET p == PartsOf[m.cdkBuild.cloudformation]
    IN IF p.family = <<"A", "W", "S">>
       THEN /\ m.jsii.java.maven.artifactId = p.lowBase
            /\ m.jsii.java["package"] = JavaGroupId \o <<".", "services.">> \o p.lowBase
       ELSE /\ m.jsii.java.maven.artifactId = p.lowFamily \o <<"-">> \o p.lowBase
            /\ m.jsii.java["package"] = JavaGroupId \o <<".">> \o p.lowFamily \o <<"-">> \o p.lowBase

\* C10, amended: for the family 'AWS' the artifact id is the lower-case base
\* name and the package is services.<base>; for another family the artifact id
\* is <family>-<base> and the package is <family>.<base>, joined with a dot,
\* all in lower case.
C10_JavaNames ==
  \A m \in Manifests :
    LET p == PartsOf[m.cdkBuild.cloudformation]
    IN IF p.family = <<"A", "W", "S">>
       THEN /\ m.jsii.java.maven.artifactId = p.lowBase
            /\ m.jsii.java["package"] = JavaGroupId \o <<".", "services.">> \o p.lowBase
       ELSE /\ m.jsii.java.maven.artifactId = p.lowFamily \o <<"-">> \o p.lowBase
            /\ m.jsii.java["package"] = JavaGroupId \o <<".">> \o p.lowFamily \o <<".">> \o p.lowBase

C10_Witness ==
  \E a, b \in Manifests :
    /\ a.cdkBuild.cloudformation = NsAwsS3
    /\ a.jsii.java.maven.artifactId = <<"s", "3">>
    /\ a.jsii.java["package"] = <<"software.amazon.awscdk", ".", "services.", "s", "3">>
    /\ b.cdkBuild.cloudformation = NsAlexaAsk
    /\ b.jsii.java.maven.artifactId = <<"a", "l", "e", "x", "a", "-", "a", "s", "k">>
    /\ b.jsii.java["package"] =
         <<"software.amazon.awscdk", ".", "a", "l", "e", "x", "a", ".", "a", "s", "k">>

=============================================================================
